---------------------------- MODULE Spec2Model ----------------------------
(***************************************************************************)
(* Model of src/project2.cpp: a registry of chips (allChips), the three    *)
(* commands of main's command loop (A: connect, I: set an input value,     *)
(* O: query an output), the recursive Chip::compute with its call stack,   *)
(* and the two display passes at the end of main.                          *)
(*                                                                         *)
(* Chips are the indexes 1..NumChips of allChips; the null pointer is 0.   *)
(* A chip id is a sequence of one-character strings, so that chipId[0] of  *)
(* the source is id[1] here.  A double is modelled as an exact fraction    *)
(* <<numerator, denominator>> in lowest terms; rounding is not modelled.   *)
(*                                                                         *)
(* The commands are drawn from the ids of the registry and one absent id;  *)
(* the I commands name I chips (the inputValue of any other chip is never  *)
(* read).  numCommands is not counted: the command loop may end after any  *)
(* command.                                                                *)
(***************************************************************************)
EXTENDS Integers, Sequences, FiniteSets, TLC

VARIABLES
    allChips,     \* the registry: the sequence of chip ids, in creation order
    input1,       \* Chip::input1 of every chip (0: nullptr)
    input2,       \* Chip::input2
    output,       \* Chip::output
    inputValue,   \* Chip::inputValue
    result,       \* Chip::result
    pc,           \* where main is: "commands", "computing", "pass2", "done", "crashed"
    fault,        \* why the process died: "none", "nullptr", "overflow"
    stack,        \* the frames of Chip::compute, innermost last
    queried,      \* the chip the O command being processed found (0: none)
    diagnostics,  \* ids named by the division-by-zero lines of the current command
    reported,     \* the value of the "output value" line of the current command
    listing,      \* the display lines printed so far by the two final passes
    connectsTo    \* per two-input chip: Connect commands that named it as target (0, 1, 2 = two or more)

vars == <<allChips, input1, input2, output, inputValue, result, pc, fault,
          stack, queried, diagnostics, reported, listing, connectsTo>>

----------------------------------------------------------------------------
(* Bounds of the model. *)

\* The deepest call stack of compute the process survives.
MaxStack == 4

\* Values an I command may carry: 0..MaxInput.
MaxInput == 1

----------------------------------------------------------------------------
(* Values: exact fractions in lowest terms, positive denominator. *)

Abs(n) == IF n < 0 THEN -n ELSE n

RECURSIVE GCD(_, _)
GCD(a, b) == IF b = 0 THEN a ELSE GCD(b, a % b)

Norm(n, d) ==
    LET s == IF d < 0 THEN -1 ELSE 1
        g == GCD(Abs(n), Abs(d))
    IN  <<(s * n) \div g, (s * d) \div g>>

Num(v) == Norm(v, 1)
Zero == <<0, 1>>
IsZero(v) == v[1] = 0

RAdd(a, b) == Norm(a[1] * b[2] + b[1] * a[2], a[2] * b[2])
RSub(a, b) == Norm(a[1] * b[2] - b[1] * a[2], a[2] * b[2])
RMul(a, b) == Norm(a[1] * b[1], a[2] * b[2])
RDiv(a, b) == Norm(a[1] * b[2], a[2] * b[1])
RNeg(a) == <<-a[1], a[2]>>

\* A field no statement of the program reads before writing it.
Unset == <<0, 0>>
\* No value printed (yet) by the current command.
None == <<1, 0>>

\* What a double that was never assigned may hold.
Garbage == {Zero, <<1, 1>>}

\* What the build may do at a null dereference that only reads.
UBOutcomes == {"trap", "garbage"}

InputValues == {Num(v) : v \in 0..MaxInput}

----------------------------------------------------------------------------
(* Chip ids.  The first character is the chip's type. *)

I1 == <<"I", "1">>
I2 == <<"I", "2">>
A1 == <<"A", "1">>
S1 == <<"S", "1">>
M1 == <<"M", "1">>
D1 == <<"D", "1">>
N1 == <<"N", "1">>
O1 == <<"O", "1">>
O50 == <<"O", "5", "0">>
\* An id no registry holds.
X9 == <<"X", "9">>
\* The text display prints for a null link, and for a link read through nullptr.
NoneText == <<"N", "o", "n", "e">>
GarbageText == <<"?">>

\* The registries the model starts from: small circuits of every chip type.
Registries ==
    { <<I1, I2, S1>>,
      <<I1, N1, O50>>,
      <<O1, I1, O50>>,
      <<I1, A1>>,
      <<I1, M1>> }

\* Registries with two chained two-input chips.
DeepRegistries ==
    { <<I1, D1, A1>>,
      <<I1, D1, O1>> }

Chips == 1..Len(allChips)

\* Ids a command may name.
CommandIds == {allChips[i] : i \in Chips} \cup {X9}

\* Ids an I command may name: the input chips, and the id no registry holds.
InputIds == {a \in CommandIds : a[1] = "I" \/ a = X9}

TwoInput == {"A", "S", "M", "D"}


----------------------------------------------------------------------------
(* Chip: accessors and the wiring methods. *)

getId(c) == allChips[c]
getChipType(c) == allChips[c][1]
getInput1(c) == input1[c]
getResult(c) == result[c]

\* The links of all chips, as one value the wiring methods transform.
Links == [input1 |-> input1, input2 |-> input2, output |-> output]

\* setOutput as a first-writer-wins store: a set back link is kept.
setOutputKeepsFirst(h, self, outputChip) ==
    IF self = 0 \/ h.output[self] # 0 THEN h
    ELSE [h EXCEPT !.output[self] = outputChip]

\* Chip::setOutput on chip self.  A call through nullptr stores nothing here;
\* the caller turns it into a fault.
setOutput(h, self, outputChip) ==
    IF self = 0 THEN h ELSE [h EXCEPT !.output[self] = outputChip]

\* Chip::setInput1 on chip self: the slot first, then the back link.
setInput1(h, self, inputChip) ==
    setOutput([h EXCEPT !.input1[self] = inputChip], inputChip, self)

\* Chip::setInput2 on chip self.
setInput2(h, self, inputChip) ==
    setOutput([h EXCEPT !.input2[self] = inputChip], inputChip, self)

\* The search loop of the A command (no break: the last match stays).
FindLast(idv) ==
    LET S == {j \in Chips : getId(j) = idv}
    IN  IF S = {} THEN 0 ELSE CHOOSE j \in S : \A k \in S : k <= j

\* The search loops of the I and O commands (break at the first match).
FindFirst(idv) ==
    LET S == {j \in Chips : getId(j) = idv}
    IN  IF S = {} THEN 0 ELSE CHOOSE j \in S : \A k \in S : j <= k

\* Whether the A command calls a wiring method (which then dereferences inputChip).
Wires(outputChip) == getChipType(outputChip) \in {"N", "O"} \cup TwoInput

\* Wire without the free-slot test: a two-input chip is always bound at input1.
WireAlwaysInput1(h, inputChip, outputChip) ==
    IF Wires(outputChip) THEN setInput1(h, outputChip, inputChip) ELSE h

\* Wire with the free-slot rule applied to N and O chips as well.
WireFreeSlotForAll(h, inputChip, outputChip) ==
    IF Wires(outputChip)
    THEN IF h.input1[outputChip] = 0
         THEN setInput1(h, outputChip, inputChip)
         ELSE setInput2(h, outputChip, inputChip)
    ELSE h

\* The connection the A command makes, by the type of the output chip.
Wire(h, inputChip, outputChip) ==
    LET t == getChipType(outputChip)
    IN  IF t \in {"N", "O"} THEN setInput1(h, outputChip, inputChip)
        ELSE IF t \in TwoInput
             THEN IF h.input1[outputChip] = 0
                  THEN setInput1(h, outputChip, inputChip)
                  ELSE setInput2(h, outputChip, inputChip)
             ELSE h

----------------------------------------------------------------------------
(* The initial state: main after its chip-creation loop. *)

\* Chip::Chip leaves inputValue and result unassigned.  inputValue is read
\* unassigned only by an I chip, result only of a chip whose compute may
\* leave it alone (every type but I, A, S, M, D).
InitFrom(registries) ==
    /\ allChips \in registries
    /\ input1 = [c \in Chips |-> 0]
    /\ input2 = [c \in Chips |-> 0]
    /\ output = [c \in Chips |-> 0]
    /\ inputValue \in [Chips -> Garbage \cup {Unset}]
    /\ \A c \in Chips : inputValue[c] = Unset <=> getChipType(c) # "I"
    /\ result \in [Chips -> Garbage \cup {Unset}]
    /\ \A c \in Chips : result[c] = Unset <=> getChipType(c) \in {"I"} \cup TwoInput
    /\ pc = "commands"
    /\ fault = "none"
    /\ stack = <<>>
    /\ queried = 0
    /\ diagnostics = <<>>
    /\ reported = None
    /\ listing = <<>>
    /\ connectsTo = [c \in Chips |-> 0]

----------------------------------------------------------------------------
(* The command loop of main. *)

\* A new command starts: the output of the previous one is no longer looked at.
NewCommand ==
    /\ pc = "commands"
    /\ diagnostics' = <<>>
    /\ reported' = None

Crash(why) ==
    /\ pc' = "crashed"
    /\ fault' = why

\* Command "A inputId outputId".
Connect(inputId, outputId) ==
    LET inputChip == FindLast(inputId)
        outputChip == FindLast(outputId)
        h == IF outputChip = 0 THEN Links ELSE Wire(Links, inputChip, outputChip)
    IN  /\ NewCommand
        /\ input1' = h.input1
        /\ input2' = h.input2
        /\ output' = h.output
        /\ IF outputChip = 0
           THEN \* the type is read through nullptr: a trap, or a garbage
                \* type that matches no branch (one that matches a branch
                \* stores through nullptr, and traps)
                \E ub \in UBOutcomes :
                    IF ub = "trap" THEN Crash("nullptr")
                    ELSE UNCHANGED <<pc, fault>>
           ELSE IF inputChip = 0 /\ Wires(outputChip)
                THEN Crash("nullptr")   \* inputChip->setOutput(this) stores through nullptr
                ELSE UNCHANGED <<pc, fault>>
        /\ connectsTo' =
             IF outputChip # 0 /\ getChipType(outputChip) \in TwoInput
                  /\ connectsTo[outputChip] < 2
             THEN [connectsTo EXCEPT ![outputChip] = @ + 1]
             ELSE connectsTo
        /\ queried' = 0
        /\ UNCHANGED <<allChips, inputValue, result, stack, listing>>

\* Command "I chipId value".
SetInput(chipId, value) ==
    LET j == FindFirst(chipId)
    IN  /\ NewCommand
        /\ inputValue' = IF j = 0 THEN inputValue
                         ELSE [inputValue EXCEPT ![j] = value]
        /\ queried' = 0
        /\ UNCHANGED <<allChips, input1, input2, output, result, pc, fault,
                       stack, listing, connectsTo>>

\* Command "O outputChipId", up to the call of compute.
Query(outputChipId) ==
    LET j == FindFirst(outputChipId)
    IN  /\ NewCommand
        /\ queried' = j
        /\ IF j = 0
           THEN UNCHANGED <<pc, stack>>
           ELSE /\ pc' = "computing"
                /\ stack' = <<[chip |-> j, at |-> "L90"]>>
        /\ UNCHANGED <<allChips, input1, input2, output, inputValue, result,
                       fault, listing, connectsTo>>


----------------------------------------------------------------------------
(* Chip::compute, one step per call, return or operation.  A frame is the   *)
(* chip compute runs on and the line it is at: "L90" on entry, "L97" back   *)
(* from input1->compute(), "L100" back from input2->compute().              *)

Top == stack[Len(stack)]
Pop == SubSeq(stack, 1, Len(stack) - 1)

\* The next recursive call the frame makes: <<callee, line to come back to>>,
\* or <<0, "L100">> when none is left.
NextCall(f) ==
    IF f.at = "L90" /\ input1[f.chip] # 0 THEN <<input1[f.chip], "L97">>
    ELSE IF f.at \in {"L90", "L97"} /\ input2[f.chip] # 0
         THEN <<input2[f.chip], "L100">>
         ELSE <<0, "L100">>

\* OpResult with a negation that always stores: zero in, zero out.
OpResultNegatesZero(t, a, b, old) ==
    CASE t = "A" -> RAdd(a, b)
      [] t = "S" -> RSub(a, b)
      [] t = "M" -> RMul(a, b)
      [] t = "D" -> IF ~IsZero(b) THEN RDiv(a, b) ELSE Zero
      [] t = "N" -> RNeg(a)
      [] OTHER -> old

\* The value the operation of a chip of type t leaves in result, from the
\* results a and b of input1 and input2 and the result old it had.
OpResult(t, a, b, old) ==
    CASE t = "A" -> RAdd(a, b)
      [] t = "S" -> RSub(a, b)
      [] t = "M" -> RMul(a, b)
      [] t = "D" -> IF ~IsZero(b) THEN RDiv(a, b) ELSE Zero
      [] t = "N" -> IF ~IsZero(a) THEN RNeg(a) ELSE old
      [] OTHER -> old

\* The division by zero recovered silently: no line is printed.
DiagnosesNever(t, b) == FALSE

\* Whether the operation prints the division-by-zero line.
Diagnoses(t, b) == t = "D" /\ IsZero(b)

\* The input slots the operation of a chip of type t dereferences.
Reads(t) == IF t \in TwoInput THEN {1, 2} ELSE IF t = "N" THEN {1} ELSE {}

\* An input chip that keeps a result it already computed (a cache).
InputResultCached(c) == IF result[c] # Unset THEN result[c] ELSE inputValue[c]

\* What an input chip's compute stores.
InputResult(c) == inputValue[c]

\* Lines 90-93: compute on an I chip.
ComputeInput ==
    /\ pc = "computing"
    /\ stack # <<>>
    /\ getChipType(Top.chip) = "I"
    /\ result' = [result EXCEPT ![Top.chip] = InputResult(Top.chip)]
    /\ stack' = Pop
    /\ UNCHANGED <<allChips, input1, input2, output, inputValue, pc, fault,
                   queried, diagnostics, reported, listing, connectsTo>>

\* The stack after the frame on top calls compute on callee.
Call(callee, back) ==
    Append([stack EXCEPT ![Len(stack)].at = back], [chip |-> callee, at |-> "L90"])

\* Lines 96-97: a recursive call, when the stack has room for it.
ComputeCall ==
    /\ pc = "computing"
    /\ stack # <<>>
    /\ getChipType(Top.chip) # "I"
    /\ NextCall(Top)[1] # 0
    /\ Len(stack) < MaxStack
    /\ stack' = Call(NextCall(Top)[1], NextCall(Top)[2])
    /\ UNCHANGED <<allChips, input1, input2, output, inputValue, result, pc,
                   fault, queried, diagnostics, reported, listing, connectsTo>>

\* Lines 96-97: a recursive call the stack has no room for.
ComputeOverflow ==
    /\ pc = "computing"
    /\ stack # <<>>
    /\ getChipType(Top.chip) # "I"
    /\ NextCall(Top)[1] # 0
    /\ Len(stack) >= MaxStack
    /\ Crash("overflow")
    /\ UNCHANGED <<allChips, input1, input2, output, inputValue, result,
                   stack, queried, diagnostics, reported, listing, connectsTo>>

\* Lines 99-122: the operation of a chip that is no I chip, and the return.
\* A slot the operation reads through nullptr either traps or yields garbage.
ComputeOperate ==
    /\ pc = "computing"
    /\ stack # <<>>
    /\ getChipType(Top.chip) # "I"
    /\ NextCall(Top)[1] = 0
    /\ LET c == Top.chip
           t == getChipType(c)
           null1 == 1 \in Reads(t) /\ input1[c] = 0
           null2 == 2 \in Reads(t) /\ input2[c] = 0
       IN  \E ub \in (IF null1 \/ null2 THEN UBOutcomes ELSE {"none"}),
              g1 \in (IF null1 THEN Garbage ELSE {Unset}),
              g2 \in (IF null2 THEN Garbage ELSE {Unset}) :
             LET a == IF input1[c] = 0 THEN g1 ELSE getResult(input1[c])
                 b == IF input2[c] = 0 THEN g2 ELSE getResult(input2[c])
             IN  IF ub = "trap"
                 THEN /\ Crash("nullptr")
                      /\ UNCHANGED <<result, stack, diagnostics>>
                 ELSE /\ result' = [result EXCEPT ![c] = OpResult(t, a, b, result[c])]
                      /\ diagnostics' = IF Diagnoses(t, b)
                                        THEN Append(diagnostics, getId(c))
                                        ELSE diagnostics
                      /\ stack' = Pop
                      /\ UNCHANGED <<pc, fault>>
    /\ UNCHANGED <<allChips, input1, input2, output, inputValue, queried,
                   reported, listing, connectsTo>>

\* The O command printing the queried chip's own result, whatever its type.
ReportedChipOwn(c) == c

\* The chip whose result the O command prints: input1 of an O chip, else the chip.
ReportedChip(c) == IF getChipType(c) = "O" THEN getInput1(c) ELSE c

\* Lines 232 and 235: the "output value" line, after compute came back.
Report ==
    /\ pc = "computing"
    /\ stack = <<>>
    /\ LET r == ReportedChip(queried)
       IN  \E ub \in (IF r = 0 THEN UBOutcomes ELSE {"none"}),
              g \in (IF r = 0 THEN Garbage ELSE {Unset}) :
             IF ub = "trap"
             THEN /\ Crash("nullptr")
                  /\ UNCHANGED reported
             ELSE /\ reported' = IF r = 0 THEN g ELSE getResult(r)
                  /\ pc' = "commands"
                  /\ UNCHANGED fault
    /\ UNCHANGED <<allChips, input1, input2, output, inputValue, result, stack,
                   queried, diagnostics, listing, connectsTo>>

----------------------------------------------------------------------------
(* The two display passes at the end of main. *)

IdText(p) == IF p = 0 THEN NoneText ELSE getId(p)

\* Chip::display: the fields of the line it prints.
display(c) ==
    IF getChipType(c) = "I" THEN <<getId(c), IdText(output[c])>>
    ELSE IF getChipType(c) = "O" THEN <<getId(c), IdText(input1[c])>>
    ELSE <<getId(c), IdText(input1[c]), IdText(input2[c]),
           IF output[c] = 0 THEN GarbageText ELSE getId(output[c])>>

\* display reads output->getId() without a null check.
displayFaults(c) == getChipType(c) \notin {"I", "O"} /\ output[c] = 0

CreationOrder == [i \in Chips |-> i]

\* The chips the first loop displays, and those the second loop displays.
FirstPass == SelectSeq(CreationOrder, LAMBDA i : getId(i) # O50)
SecondPass == SelectSeq(CreationOrder, LAMBDA i : getChipType(i) = "O")

Lines(idxs) == [k \in 1..Len(idxs) |-> [chip |-> idxs[k], text |-> display(idxs[k])]]

\* The position in idxs of the first chip whose display faults (0: none).
FirstFault(idxs) ==
    LET S == {k \in 1..Len(idxs) : displayFaults(idxs[k])}
    IN  IF S = {} THEN 0 ELSE CHOOSE k \in S : \A m \in S : k <= m

\* Lines 244-249, entered when the command loop has run numCommands times.
DisplayPass1 ==
    /\ NewCommand
    /\ LET k == FirstFault(FirstPass)
       IN  \E ub \in (IF k = 0 THEN {"none"} ELSE UBOutcomes) :
             IF ub = "trap"
             THEN /\ listing' = Lines(SubSeq(FirstPass, 1, k - 1))
                  /\ Crash("nullptr")
             ELSE /\ listing' = Lines(FirstPass)
                  /\ pc' = "pass2"
                  /\ UNCHANGED fault
    /\ queried' = 0
    /\ UNCHANGED <<allChips, input1, input2, output, inputValue, result,
                   stack, connectsTo>>

\* Lines 250-262: the second loop, the cleanup and the return.
DisplayPass2 ==
    /\ pc = "pass2"
    /\ listing' = listing \o Lines(SecondPass)
    /\ pc' = "done"
    /\ UNCHANGED <<allChips, input1, input2, output, inputValue, result, fault,
                   stack, queried, diagnostics, reported, connectsTo>>

----------------------------------------------------------------------------

Command ==
    \/ \E a \in CommandIds, b \in CommandIds : Connect(a, b)
    \/ \E c \in InputIds, v \in InputValues : SetInput(c, v)
    \/ \E c \in CommandIds : Query(c)

Compute ==
    \/ ComputeInput
    \/ ComputeCall
    \/ ComputeOverflow
    \/ ComputeOperate
    \/ Report

Next ==
    \/ Command
    \/ Compute
    \/ DisplayPass1
    \/ DisplayPass2

Init == InitFrom(Registries)
Spec == Init /\ [][Next]_vars

InitDeep == InitFrom(DeepRegistries)
DeepSpec == InitDeep /\ [][Next]_vars


----------------------------------------------------------------------------
(* The final listing. *)

Positions(c) == {k \in 1..Len(listing) : listing[k].chip = c}
IsOutputLine(k) == getChipType(listing[k].chip) = "O"

\* C1: in the final listing no display line of an O chip precedes the line
\* of a chip that is no O chip, and the lines of the O chips, and those of
\* the other chips, are in creation order.
C1Ordered ==
    pc = "done" =>
        \A i \in 1..Len(listing), j \in 1..Len(listing) :
            i < j =>
                /\ ~(IsOutputLine(i) /\ ~IsOutputLine(j))
                /\ (IsOutputLine(i) <=> IsOutputLine(j))
                       => listing[i].chip < listing[j].chip

\* C2: the final listing holds exactly one display line per chip of the registry.
C2OneLineEach ==
    pc = "done" => \A c \in Chips : Cardinality(Positions(c)) = 1

----------------------------------------------------------------------------
(* Wiring. *)

\* C6: the first A command naming a two-input chip as target binds its
\* source at input1 and leaves input2 empty; the second binds its source at
\* input2 and leaves input1 as it was, whatever commands ran in between.
C6FirstThenSecond ==
    [][\A a \in Chips, b \in Chips :
          (pc = "commands" /\ getChipType(b) \in TwoInput
             /\ Connect(getId(a), getId(b))) =>
              /\ connectsTo[b] = 0 => (input1'[b] = a /\ input2'[b] = 0)
              /\ connectsTo[b] = 1 => (input2'[b] = a /\ input1'[b] = input1[b])
      ]_vars

\* A two-input chip bound by two A commands with different sources, the
\* chip having been computed before the second one (its input2 chip, an I
\* chip, was never computed).
C6Witness ==
    /\ pc = "commands"
    /\ \E c \in Chips :
          /\ getChipType(c) \in TwoInput
          /\ connectsTo[c] = 2
          /\ input1[c] # 0
          /\ input2[c] # 0
          /\ input1[c] # input2[c]
          /\ getChipType(input2[c]) = "I"
          /\ result[c] # Unset
          /\ result[input2[c]] = Unset

\* C9: an A command over existing chips whose target b is no I chip stores
\* a in one input slot of b and b in a.output, and changes no other field
\* of any chip.
C9TwoFields ==
    [][\A a \in Chips, b \in Chips :
          (pc = "commands" /\ getChipType(b) # "I"
             /\ Connect(getId(a), getId(b))) =>
              /\ \/ input1' = [input1 EXCEPT ![b] = a] /\ input2' = input2
                 \/ input2' = [input2 EXCEPT ![b] = a] /\ input1' = input1
              /\ output' = [output EXCEPT ![a] = b]
              /\ UNCHANGED <<allChips, inputValue, result>>
      ]_vars

\* A chip a that feeds two chips: its output names the later one, and the
\* earlier one still has a in its slot.
C9Witness ==
    \E a \in Chips, b \in Chips, b2 \in Chips :
        /\ b # b2
        /\ input1[b] = a
        /\ a \in {input1[b2], input2[b2]}
        /\ output[a] = b2
        /\ pc = "commands"

\* The shape of the input slots.
SlotsOk ==
    \A c \in Chips :
        /\ input2[c] # 0 => (getChipType(c) \in TwoInput /\ input1[c] # 0)
        /\ getChipType(c) = "I" => (input1[c] = 0 /\ input2[c] = 0)

\* An A command that names an id the registry does not hold, and faults.
AbsentIdFault ==
    /\ pc = "commands"
    /\ pc' = "crashed"
    /\ \E a \in CommandIds, b \in CommandIds : Connect(a, b)

\* C10: over commands naming existing ids, input2 is set only on a
\* two-input chip whose input1 is set, an I chip has both slots empty (an A
\* command whose target is an I chip changes no link), and a slot that is
\* set is never emptied.
C10Slots ==
    /\ SlotsOk
    /\ [][~AbsentIdFault =>
            /\ SlotsOk'
            /\ \A c \in Chips :
                  /\ input1[c] # 0 => input1'[c] # 0
                  /\ input2[c] # 0 => input2'[c] # 0
            /\ \A a \in Chips, b \in Chips :
                  (pc = "commands" /\ getChipType(b) = "I"
                     /\ Connect(getId(a), getId(b)))
                      => UNCHANGED <<input1, input2, output>>
        ]_vars

\* A one-input chip named as target by two A commands: both sources have it
\* as output, the later one is its input1, and its input2 is still empty.
C10Witness ==
    /\ pc = "commands"
    /\ \E c \in Chips, a \in Chips, d \in Chips :
          /\ getChipType(c) \in {"N", "O"}
          /\ input1[c] = a
          /\ input2[c] = 0
          /\ d # a
          /\ d # c
          /\ output[a] = c
          /\ output[d] = c


----------------------------------------------------------------------------
(* Evaluation. *)

\* compute is about to run the operation of chip c, both recursive calls done.
AtOperation(c) ==
    /\ pc = "computing"
    /\ stack # <<>>
    /\ Top.chip = c
    /\ getChipType(c) # "I"
    /\ (Top.at = "L100" \/ (Top.at = "L97" /\ input2[c] = 0)
          \/ (Top.at = "L90" /\ input1[c] = 0 /\ input2[c] = 0))

\* compute came back to main, which prints the result and goes on.
Reports == pc = "computing" /\ stack = <<>> /\ pc' = "commands"

\* The arithmetic of the A, S and M chips.
Arith(t, x, y) ==
    CASE t = "A" -> RAdd(x, y)
      [] t = "S" -> RSub(x, y)
      [] t = "M" -> RMul(x, y)

FedByInputs(c) ==
    /\ getChipType(c) \in {"A", "S", "M"}
    /\ input1[c] # 0
    /\ input2[c] # 0
    /\ getChipType(input1[c]) = "I"
    /\ getChipType(input2[c]) = "I"

FreshValue(c) == Arith(getChipType(c), inputValue[input1[c]], inputValue[input2[c]])

\* C3: every compute of an A, S or M chip whose two inputs are I chips
\* stores the sum, difference or product of the two inputValues as they are
\* at the call, and the O command on that chip reports it.
C3Fresh ==
    [][\A c \in Chips :
          FedByInputs(c) =>
              /\ AtOperation(c) => result'[c] = FreshValue(c)
              /\ (Reports /\ queried = c) => reported' = FreshValue(c)
      ]_vars

\* A later query at work: compute on a chip fed by two different I chips
\* has recomputed both inputs and is about to replace the result of an
\* earlier query, which differs from the function of the current values.
C3Witness ==
    \E c \in Chips :
        /\ FedByInputs(c)
        /\ input1[c] # input2[c]
        /\ AtOperation(c)
        /\ result[c] # Unset
        /\ result[c] # FreshValue(c)
        /\ result[input1[c]] = inputValue[input1[c]]
        /\ result[input2[c]] = inputValue[input2[c]]

\* Chip c has a frame on the stack.
OnStack(c) == \E k \in 1..Len(stack) : stack[k].chip = c

\* C5: compute on an N chip whose input1 result is 0 leaves result as it
\* was before the call; with a non-zero input1 result it stores the negation.
C5Negate ==
    [][\A c \in Chips :
          (getChipType(c) = "N" /\ input1[c] # 0) =>
              /\ (pc = "computing" /\ OnStack(c) /\ ~AtOperation(c))
                     => result'[c] = result[c]
              /\ AtOperation(c) =>
                     result'[c] = IF IsZero(result[input1[c]])
                                  THEN result[c]
                                  ELSE RNeg(result[input1[c]])
      ]_vars

\* An N chip queried with a zero input after it was computed on a non-zero
\* input: the reported value is the stale negation, not 0.
C5Witness ==
    \E c \in Chips :
        /\ getChipType(c) = "N"
        /\ input1[c] # 0
        /\ pc = "commands"
        /\ queried = c
        /\ IsZero(result[input1[c]])
        /\ reported = result[c]
        /\ result[c][1] < 0


\* The second operand of D chip d is wired and its result is 0.
ZeroDivisor(d) ==
    /\ getChipType(d) = "D"
    /\ input2[d] # 0
    /\ IsZero(result[input2[d]])

\* The chips compute visits from chip c (meant for an acyclic upstream).
RECURSIVE Upstream(_)
Upstream(c) ==
    IF c = 0 THEN {}
    ELSE IF getChipType(c) = "I" THEN {c}
    ELSE {c} \cup Upstream(input1[c]) \cup Upstream(input2[c])

Named(d) == Cardinality({k \in 1..Len(diagnostics) : diagnostics[k] = getId(d)})

\* C4 as claimed: when compute has come back to main, every D chip it
\* evaluated whose second operand's result is 0 has result 0 and was named
\* by exactly one diagnostic.
C4OneDiagnostic ==
    (pc = "computing" /\ stack = <<>>) =>
        \A d \in Upstream(queried) :
            ZeroDivisor(d) => (result[d] = Zero /\ Named(d) = 1)

\* D chip d, fed by I chips and dividing by an inputValue of 0, is both
\* inputs of the two-input chip q.
DoubleFeed(q, d) ==
    /\ getChipType(q) \in TwoInput
    /\ input1[q] = d
    /\ input2[q] = d
    /\ getChipType(d) = "D"
    /\ input1[d] # 0
    /\ input2[d] # 0
    /\ getChipType(input1[d]) = "I"
    /\ getChipType(input2[d]) = "I"
    /\ IsZero(inputValue[input2[d]])

\* C4, amended: every evaluation of a D chip whose second operand's result
\* is 0 stores 0, prints exactly one diagnostic naming the chip and returns
\* to its caller; nothing else prints a diagnostic during a query; so a
\* query prints one diagnostic per evaluation, two when the D chip is both
\* inputs of the queried chip.
C4PerEvaluation ==
    [][/\ \A d \in Chips :
             (AtOperation(d) /\ ZeroDivisor(d)) =>
                 /\ result'[d] = Zero
                 /\ diagnostics' = Append(diagnostics, getId(d))
                 /\ stack' = Pop
                 /\ pc' = "computing"
       /\ (pc = "computing" /\ diagnostics' # diagnostics) =>
             \E d \in Chips :
                 /\ AtOperation(d)
                 /\ getChipType(d) = "D"
                 /\ input2[d] # 0 => IsZero(result[input2[d]])
                 /\ diagnostics' = Append(diagnostics, getId(d))
       /\ \A d \in Chips :
             (pc = "computing" /\ stack = <<>> /\ DoubleFeed(queried, d)) =>
                 diagnostics = <<getId(d), getId(d)>>
      ]_vars

\* A finished query in which a D chip dividing by zero fed both inputs of
\* the queried chip: two diagnostics, result 0, and a value reported.
C4Witness ==
    \E d \in Chips :
        /\ pc = "commands"
        /\ queried # 0
        /\ DoubleFeed(queried, d)
        /\ result[d] = Zero
        /\ Named(d) = 2
        /\ reported = result[queried]

\* The chip at the root of the expression the O command reports.
Root(q) == IF getChipType(q) = "O" THEN input1[q] ELSE q

\* Chip c is the root of a fully wired expression of I, A, S, M and D chips
\* at most fuel chips deep (so: acyclic when fuel is the number of chips).
RECURSIVE IsTree(_, _)
IsTree(c, fuel) ==
    /\ c # 0
    /\ fuel > 0
    /\ \/ getChipType(c) = "I"
       \/ /\ getChipType(c) \in TwoInput
          /\ IsTree(input1[c], fuel - 1)
          /\ IsTree(input2[c], fuel - 1)

\* The value of the expression rooted at c over the current inputValues.
RECURSIVE TreeValue(_)
TreeValue(c) ==
    LET t == getChipType(c)
    IN  IF t = "I" THEN inputValue[c]
        ELSE LET x == TreeValue(input1[c])
                 y == TreeValue(input2[c])
             IN  IF t = "D"
                 THEN IF IsZero(y) THEN Zero ELSE RDiv(x, y)
                 ELSE Arith(t, x, y)

RECURSIVE Depth(_)
Depth(c) ==
    IF getChipType(c) = "I" THEN 0
    ELSE 1 + (IF Depth(input1[c]) > Depth(input2[c])
              THEN Depth(input1[c]) ELSE Depth(input2[c]))

\* C7: the O command on a chip whose expression is a fully wired acyclic
\* tree of I, A, S, M and D chips (the input1 of an O chip, or the queried
\* chip itself) reports the value of that tree over the current
\* inputValues, division by zero giving 0.
C7TreeValue ==
    [][(Reports /\ IsTree(Root(queried), Len(allChips)))
           => reported' = TreeValue(Root(queried))
      ]_vars

\* A finished query of an O chip over a wired two-input chip whose operands
\* are I chips: the value reported is the tree's, not 0, and nothing was diagnosed.
C7Witness ==
    /\ pc = "commands"
    /\ queried # 0
    /\ getChipType(queried) = "O"
    /\ IsTree(Root(queried), Len(allChips))
    /\ Depth(Root(queried)) >= 1
    /\ reported = TreeValue(Root(queried))
    /\ ~IsZero(reported)
    /\ diagnostics = <<>>

\* No cycle among the input links compute follows from chip c.
RECURSIVE NoCycle(_, _)
NoCycle(c, fuel) ==
    \/ c = 0
    \/ getChipType(c) = "I"
    \/ /\ fuel > 0
       /\ NoCycle(input1[c], fuel - 1)
       /\ NoCycle(input2[c], fuel - 1)

\* C8 as claimed, for the runs that end: an O command on a chip whose
\* upstream input links form no cycle does not end without its value line.
C8Completes ==
    (queried # 0 /\ NoCycle(queried, Len(allChips))) => pc # "crashed"

\* The part of C8 that holds: compute exhausts the stack only on a cycle.
OverflowOnlyOnCycle ==
    fault = "overflow" => ~NoCycle(queried, Len(allChips))

=============================================================================
